---- MODULE Spec2Model ----
(***************************************************************************)
(* The pod entity of the resource-manager cache                            *)
(* (pkg/cri/resource-manager/cache/pod.go): its construction from CRI      *)
(* messages, its queries and the QoS classification.                      *)
(*                                                                         *)
(* Go values are represented as follows.                                   *)
(*   - a pointer that may be nil is a sequence: <<>> is nil, <<v>> points  *)
(*     to v;                                                               *)
(*   - a map is a function whose DOMAIN is the key set (a nil map and an   *)
(*     empty map both have the empty domain; the code only reads them);    *)
(*   - a resource.Quantity is an integer (Quantity arithmetic is exact);   *)
(*   - the string value of the intel.com/resources annotation is the JSON  *)
(*     text it holds, represented by its parse: whether the text is       *)
(*     syntactically valid and, per top-level member, whether the member   *)
(*     is absent, an object of the expected shape, or of another JSON      *)
(*     type.                                                               *)
(***************************************************************************)
EXTENDS Integers, Sequences, FiniteSets, TLC

VARIABLES
    p,                \* the pod entity (struct pod)
    cacheContainers,  \* p.cache.Containers, a set of [Id, PodId]
    ret,              \* the last call on the entity: operation, argument, results
    last,             \* the last successful construction: kind and carried state
    panicked,         \* a call dereferenced a nil pointer
    mu,               \* holder of the cache's exclusivity ("none" when free)
    pc,               \* position of the mutator and of the reader
    loc               \* locals of the calls in progress

vars == <<p, cacheContainers, ret, last, panicked, mu, pc, loc>>

-----------------------------------------------------------------------------
(* Bounds and constants *)

MaxQty == 1

KeyResourceAnnotation == "intel.com/resources"

KubernetesPodUIDLabel == "io.kubernetes.pod.uid"

PodStateReady == 0

ResourceCPU == "cpu"

ResourceMemory == "memory"

PodQOSGuaranteed == "Guaranteed"

PodQOSBurstable == "Burstable"

PodQOSBestEffort == "BestEffort"

Nil == <<>>

Ptr(v) == <<v>>

Deref(ptr) == ptr[1]

EmptyMap == <<>>

Keys(m) == DOMAIN m

\* All enumerations of a finite set (the orders a Go map range may take).
Orders(S) == {f \in [1..Cardinality(S) -> S] : \A i, j \in 1..Cardinality(S) : f[i] = f[j] => i = j}

\* The elements of the sequence order that are keys of m, in that order.
RangeOrder(m, order) == SelectSeq(order, LAMBDA k : k \in Keys(m))

-----------------------------------------------------------------------------
(* QoS classification *)

isSupportedQoSComputeResource(name) == name = ResourceCPU \/ name = ResourceMemory

\* a comparison that lets a quantity of 0 through
IsNotNegative(quantity) == quantity >= 0

\* quantity.Cmp(zeroQuantity) == 1
IsPositive(quantity) == quantity > 0

\* if _, exists := list[name]; !exists { list[name] = delta } else { delta.Add(list[name]); list[name] = delta }
AddQuantity(list, name, quantity) ==
    IF name \in Keys(list)
    THEN [list EXCEPT ![name] = quantity + list[name]]
    ELSE [k \in Keys(list) \cup {name} |-> IF k = name THEN quantity ELSE list[k]]

\* for name, quantity := range resources.Requests { ... } visiting names[i..]
RECURSIVE ProcessRequests(_, _, _, _)
ProcessRequests(requests, rl, names, i) ==
    IF i > Len(names) THEN requests
    ELSE LET name == names[i]
             quantity == rl[name]
         IN IF ~isSupportedQoSComputeResource(name) THEN ProcessRequests(requests, rl, names, i + 1)
            ELSE IF IsPositive(quantity)
                 THEN ProcessRequests(AddQuantity(requests, name, quantity), rl, names, i + 1)
                 ELSE ProcessRequests(requests, rl, names, i + 1)

\* for name, quantity := range resources.Limits { ... }; acc is [limits, qosLimitsFound]
RECURSIVE ProcessLimits(_, _, _, _)
ProcessLimits(acc, rl, names, i) ==
    IF i > Len(names) THEN acc
    ELSE LET name == names[i]
             quantity == rl[name]
         IN IF ~isSupportedQoSComputeResource(name) THEN ProcessLimits(acc, rl, names, i + 1)
            ELSE IF IsPositive(quantity)
                 THEN ProcessLimits([limits |-> AddQuantity(acc.limits, name, quantity),
                                     qosLimitsFound |-> acc.qosLimitsFound \cup {name}],
                                    rl, names, i + 1)
                 ELSE ProcessLimits(acc, rl, names, i + 1)

\* the flag assigned from the container at hand instead of only cleared
GuaranteedOfLast(isGuaranteed, qosLimitsFound) ==
    {ResourceMemory, ResourceCPU} \subseteq qosLimitsFound

\* if !qosLimitsFound.HasAll(memory, cpu) { isGuaranteed = false }
GuaranteedAfter(isGuaranteed, qosLimitsFound) ==
    IF ~({ResourceMemory, ResourceCPU} \subseteq qosLimitsFound) THEN FALSE ELSE isGuaranteed

\* One iteration of the loop over podResources.Containers.
ProcessContainer(st, resources, norder) ==
    LET requests == ProcessRequests(st.requests, resources.Requests,
                                    RangeOrder(resources.Requests, norder), 1)
        lim == ProcessLimits([limits |-> st.limits, qosLimitsFound |-> {}], resources.Limits,
                             RangeOrder(resources.Limits, norder), 1)
    IN [requests |-> requests, limits |-> lim.limits,
        isGuaranteed |-> GuaranteedAfter(st.isGuaranteed, lim.qosLimitsFound)]

\* for _, resources := range podResources.Containers { ... } visiting corder[i..]
RECURSIVE ProcessContainers(_, _, _, _, _)
ProcessContainers(st, containers, corder, norder, i) ==
    IF i > Len(corder) THEN st
    ELSE ProcessContainers(ProcessContainer(st, containers[corder[i]], norder),
                           containers, corder, norder, i + 1)

\* for name, req := range requests { if lim, exists := limits[name]; !exists || lim.Cmp(req) != 0 {...} }
RequestsMatchLimits(requests, limits) ==
    \A name \in Keys(requests) : name \in Keys(limits) /\ limits[name] = requests[name]

\* The class GetPodQOS computes from a resource model, visiting the containers
\* in the order corder and the resource names of each list in the order norder.
ComputeQOS(podResources, corder, norder) ==
    LET st == ProcessContainers([requests |-> EmptyMap, limits |-> EmptyMap, isGuaranteed |-> TRUE],
                                podResources.Containers, corder, norder, 1)
        isGuaranteed == IF st.isGuaranteed THEN RequestsMatchLimits(st.requests, st.limits) ELSE FALSE
    IN IF Cardinality(Keys(st.requests)) = 0 /\ Cardinality(Keys(st.limits)) = 0
       THEN PodQOSBestEffort
       ELSE IF isGuaranteed /\ Cardinality(Keys(st.requests)) = Cardinality(Keys(st.limits))
            THEN PodQOSGuaranteed
            ELSE PodQOSBurstable

-----------------------------------------------------------------------------
(* The pod entity and the annotation decoder *)

\* PodResourceRequirements{}: both maps nil.
ZeroResources == [Containers |-> EmptyMap, InitContainers |-> {}]

\* &pod{cache: cch, Id: id}: every other field at its zero value.
ZeroPod ==
    [Id |-> "p1", Name |-> "", Namespace |-> "", State |-> 0, Labels |-> EmptyMap,
     Annotations |-> EmptyMap, CgroupParent |-> "", Uid |-> "", Resources |-> Nil,
     QOSClass |-> ""]

\* PodState(int32(s)): PodState and the CRI state are both int32.
PodState(s) == s

\* value, ok := p.Labels[key]
GetLabel(pod, key) ==
    IF key \in Keys(pod.Labels) THEN [value |-> pod.Labels[key], ok |-> TRUE]
    ELSE [value |-> "", ok |-> FALSE]

\* decoding a JSON object into a Go map keeps the entries the map already has
MergeMap(old, new) ==
    [k \in Keys(old) \cup Keys(new) |-> IF k \in Keys(new) THEN new[k] ELSE old[k]]

\* json.Unmarshal([]byte(value), objPtr) for objPtr a *PodResourceRequirements:
\* a syntax error is found before anything is stored; a member of the wrong JSON
\* type is skipped and reported once the rest of the document has been decoded.
Unmarshal(doc, obj) ==
    IF ~doc.valid THEN [obj |-> obj, err |-> TRUE]
    ELSE [obj |-> [Containers |-> IF doc.Containers.json = "object"
                                  THEN MergeMap(obj.Containers, doc.Containers.value)
                                  ELSE obj.Containers,
                   InitContainers |-> IF doc.InitContainers.json = "object"
                                      THEN obj.InitContainers \cup doc.InitContainers.value
                                      ELSE obj.InitContainers],
          err |-> doc.Containers.json = "mistyped" \/ doc.InitContainers.json = "mistyped"]

\* GetAnnotationObject(key, objPtr, nil) with objPtr a *PodResourceRequirements
\* holding obj: the default arm of the type switch. logged: cache.Error was called.
AnnotationObject(pod, key, obj) ==
    IF key \notin Keys(pod.Annotations)
    THEN [ok |-> FALSE, err |-> FALSE, obj |-> obj, logged |-> FALSE]
    ELSE LET u == Unmarshal(pod.Annotations[key], obj)
         IN [ok |-> TRUE, err |-> u.err, obj |-> u.obj, logged |-> u.err]

\* p.Resources = &PodResourceRequirements{}
NewResources(pod) == ZeroResources

\* parseResourceAnnotations, first statement
AllocateResources(pod) == [pod EXCEPT !.Resources = Ptr(NewResources(pod))]

\* parseResourceAnnotations, second statement: the decoder writes through p.Resources
DecodeResources(pod) ==
    [pod EXCEPT !.Resources =
        Ptr(AnnotationObject(pod, KeyResourceAnnotation, Deref(pod.Resources)).obj)]

\* p.Resources = &PodResourceRequirements{}; p.GetAnnotationObject(KeyResourceAnnotation, p.Resources, nil)
parseResourceAnnotations(pod) == DecodeResources(AllocateResources(pod))

\* uid, ok := p.GetLabel(KubernetesPodUIDLabel); p.Uid = uid
extractLabels(pod) == [pod EXCEPT !.Uid = GetLabel(pod, KubernetesPodUIDLabel).value]

\* cfg.GetLinux().GetCgroupParent(): the generated getters accept nil
GetCgroupParent(cfg) == IF cfg.Linux = Nil THEN "" ELSE Deref(cfg.Linux).CgroupParent

\* the early returns of fromRunRequest
RunRequestError(req) == req.Config = Nil \/ Deref(req.Config).Metadata = Nil

\* the early return of fromListResponse
ListResponseError(pod) == pod.Metadata = Nil

\* the state fromRunRequest stores
RunState(req) == PodState(PodStateReady)

\* a list reply treated like a run request
ListStateReady(pod) == PodState(PodStateReady)

\* the state fromListResponse stores
ListState(pod) == PodState(pod.State)

\* the assignments of fromRunRequest
RunAssign(pod, req) ==
    LET cfg == Deref(req.Config)
        meta == Deref(cfg.Metadata)
    IN [pod EXCEPT !.Name = meta.Name, !.Namespace = meta.Namespace,
                   !.State = RunState(req), !.Labels = cfg.Labels,
                   !.Annotations = cfg.Annotations,
                   !.CgroupParent = GetCgroupParent(cfg)]

\* the assignments of fromListResponse
ListAssign(pod, sandbox) ==
    LET meta == Deref(sandbox.Metadata)
    IN [pod EXCEPT !.Name = meta.Name, !.Namespace = meta.Namespace,
                   !.State = ListState(sandbox), !.Labels = sandbox.Labels,
                   !.Annotations = sandbox.Annotations]

\* the assignments of fromRunRequest and the two calls that follow them
RunPopulate(pod, req) == extractLabels(parseResourceAnnotations(RunAssign(pod, req)))

\* the labels and annotations assigned before the metadata is checked
fromRunRequestEarly(pod, req) ==
    IF req.Config = Nil THEN pod
    ELSE IF Deref(req.Config).Metadata = Nil
         THEN [pod EXCEPT !.Labels = Deref(req.Config).Labels,
                          !.Annotations = Deref(req.Config).Annotations]
         ELSE RunPopulate(pod, req)

\* fromRunRequest: the entity after the call
fromRunRequestPod(pod, req) ==
    IF RunRequestError(req) THEN pod ELSE RunPopulate(pod, req)

\* fromListResponse: the entity after the call
fromListResponsePod(pod, sandbox) ==
    IF ListResponseError(sandbox) THEN pod
    ELSE extractLabels(parseResourceAnnotations(ListAssign(pod, sandbox)))

\* GetInitContainers: the containers returned, as a set
InitContainersOf(pod, containers) ==
    IF pod.Resources = Nil THEN {}
    ELSE {c \in containers : c.Id \in Deref(pod.Resources).InitContainers}

\* the init containers left out of the normal ones
IsListedNotInit(pod, c) ==
    IF pod.Resources # Nil
    THEN /\ c.Id \in Keys(Deref(pod.Resources).Containers)
         /\ c.Id \notin Deref(pod.Resources).InitContainers
    ELSE TRUE

\* the test of GetContainers' loop body: c is appended
IsListed(pod, c) ==
    IF pod.Resources # Nil THEN c.Id \in Keys(Deref(pod.Resources).Containers) ELSE TRUE

\* GetContainers: the containers returned, as a set
ContainersOf(pod, containers) == {c \in containers : IsListed(pod, c)}

\* no memoization
NeverMemoized(pod) == FALSE

\* if p.QOSClass != "" { return p.QOSClass }
Memoized(pod) == pod.QOSClass # ""

\* GetPodResourceRequirements
PodResourceRequirementsOf(pod) ==
    IF pod.Resources = Nil THEN ZeroResources ELSE Deref(pod.Resources)

-----------------------------------------------------------------------------
(* The messages and cache contents the entity is exercised with *)

Guar == [Requests |-> [cpu |-> 1, memory |-> 1], Limits |-> [cpu |-> 1, memory |-> 1]]

Burst == [Requests |-> [cpu |-> 1], Limits |-> [cpu |-> 2, memory |-> 2]]

Absent(zero) == [json |-> "absent", value |-> zero]

Mistyped(zero) == [json |-> "mistyped", value |-> zero]

Object(v) == [json |-> "object", value |-> v]

\* a text that is not JSON
BadSyntaxDoc == [valid |-> FALSE, Containers |-> Absent(EmptyMap), InitContainers |-> Absent({})]

JSONDoc(containers, initContainers) ==
    [valid |-> TRUE, Containers |-> containers, InitContainers |-> initContainers]

Docs ==
    {BadSyntaxDoc,
     JSONDoc(Object("c1" :> Guar), Object({"c2"})),
     JSONDoc(Object("c1" :> Guar @@ "c2" :> Burst), Object({"c1"})),
     JSONDoc(Object("c2" :> Guar), Mistyped({}))}

AnnotationMaps == {EmptyMap} \cup {KeyResourceAnnotation :> d : d \in Docs}

LabelMaps == {EmptyMap, KubernetesPodUIDLabel :> "u1"}

Metadatas == {Nil, Ptr([Name |-> "n1", Namespace |-> "ns1"])}

LinuxConfigs == {Nil, Ptr([CgroupParent |-> "/kubepods"])}

PodStates == {0, 1}

RunRequests ==
    {[Config |-> Nil]} \cup
    {[Config |-> Ptr(cfg)] : cfg \in [Metadata : Metadatas, Labels : LabelMaps,
                                      Annotations : AnnotationMaps, Linux : LinuxConfigs]}

ListResponses ==
    [Metadata : Metadatas, State : PodStates, Labels : LabelMaps, Annotations : AnnotationMaps]

\* c1 and c2 belong to this pod, c3 to another one
AllContainers ==
    {[Id |-> "c1", PodId |-> "p1"], [Id |-> "c2", PodId |-> "p1"], [Id |-> "c3", PodId |-> "p2"]}

CacheContents == {{}, AllContainers}

AnnotationKeys == {KeyResourceAnnotation, "other"}

ResourceNames == {ResourceCPU, ResourceMemory, "storage"}

-----------------------------------------------------------------------------
(* The calls, each one atomic *)

NoRet ==
    [op |-> "none", arg |-> Nil, err |-> FALSE, ok |-> FALSE, qos |-> "", state |-> 0,
     containers |-> {}, resources |-> ZeroResources]

Idle == [mutator |-> "idle", reader |-> "idle"]

NoLoc == [msg |-> Nil, podResources |-> Nil, qos |-> ""]

Init ==
    /\ p = ZeroPod
    /\ cacheContainers \in CacheContents
    /\ ret = NoRet
    /\ last = [kind |-> "none", State |-> 0]
    /\ panicked = FALSE
    /\ mu = "none"
    /\ pc = Idle
    /\ loc = NoLoc

fromRunRequest(req) ==
    /\ ~panicked
    /\ p' = fromRunRequestPod(p, req)
    /\ ret' = [NoRet EXCEPT !.op = "fromRunRequest", !.arg = Ptr(req), !.err = RunRequestError(req)]
    /\ last' = IF RunRequestError(req) THEN last ELSE [kind |-> "run", State |-> 0]
    /\ UNCHANGED <<cacheContainers, panicked, mu, pc, loc>>

fromListResponse(sandbox) ==
    /\ ~panicked
    /\ p' = fromListResponsePod(p, sandbox)
    /\ ret' = [NoRet EXCEPT !.op = "fromListResponse", !.arg = Ptr(sandbox),
                            !.err = ListResponseError(sandbox)]
    /\ last' = IF ListResponseError(sandbox) THEN last ELSE [kind |-> "list", State |-> sandbox.State]
    /\ UNCHANGED <<cacheContainers, panicked, mu, pc, loc>>

GetInitContainers ==
    /\ ~panicked
    /\ ret' = [NoRet EXCEPT !.op = "GetInitContainers", !.containers = InitContainersOf(p, cacheContainers)]
    /\ UNCHANGED <<p, cacheContainers, last, panicked, mu, pc, loc>>

GetContainers ==
    /\ ~panicked
    /\ ret' = [NoRet EXCEPT !.op = "GetContainers", !.containers = ContainersOf(p, cacheContainers)]
    /\ UNCHANGED <<p, cacheContainers, last, panicked, mu, pc, loc>>

GetState ==
    /\ ~panicked
    /\ ret' = [NoRet EXCEPT !.op = "GetState", !.state = p.State]
    /\ UNCHANGED <<p, cacheContainers, last, panicked, mu, pc, loc>>

GetPodResourceRequirements ==
    /\ ~panicked
    /\ ret' = [NoRet EXCEPT !.op = "GetPodResourceRequirements", !.resources = PodResourceRequirementsOf(p)]
    /\ UNCHANGED <<p, cacheContainers, last, panicked, mu, pc, loc>>

GetAnnotationObject(key) ==
    /\ ~panicked
    /\ LET r == AnnotationObject(p, key, ZeroResources)
       IN ret' = [NoRet EXCEPT !.op = "GetAnnotationObject", !.ok = r.ok, !.err = r.err,
                               !.resources = r.obj]
    /\ UNCHANGED <<p, cacheContainers, last, panicked, mu, pc, loc>>

\* GetPodQOS: the memoized class; a nil p.Resources is dereferenced by the
\* range over podResources.Containers; otherwise the class is computed in one
\* of the orders the two map ranges may take, stored and returned.
GetPodQOS ==
    /\ ~panicked
    /\ IF Memoized(p)
       THEN /\ ret' = [NoRet EXCEPT !.op = "GetPodQOS", !.qos = p.QOSClass]
            /\ UNCHANGED <<p, panicked>>
       ELSE IF p.Resources = Nil
            THEN /\ panicked' = TRUE
                 /\ ret' = [NoRet EXCEPT !.op = "GetPodQOS"]
                 /\ UNCHANGED p
            ELSE \E corder \in Orders(Keys(Deref(p.Resources).Containers)), norder \in Orders(ResourceNames) :
                    /\ p' = [p EXCEPT !.QOSClass = ComputeQOS(Deref(p.Resources), corder, norder)]
                    /\ ret' = [NoRet EXCEPT !.op = "GetPodQOS", !.qos = p'.QOSClass]
                    /\ UNCHANGED panicked
    /\ UNCHANGED <<cacheContainers, last, mu, pc, loc>>

Next ==
    \/ \E req \in RunRequests : fromRunRequest(req)
    \/ \E sandbox \in ListResponses : fromListResponse(sandbox)
    \/ GetInitContainers
    \/ GetContainers
    \/ GetState
    \/ GetPodResourceRequirements
    \/ \E key \in AnnotationKeys : GetAnnotationObject(key)
    \/ GetPodQOS

Spec == Init /\ [][Next]_vars

-----------------------------------------------------------------------------
(* The classification alone: a constructed pod for every resource model *)

Quantities == 0..MaxQty

\* the request or limit lists over cpu and memory: each name absent or given a quantity
QoSLists == UNION {[S -> Quantities] : S \in SUBSET {ResourceCPU, ResourceMemory}}

\* the list with a resource that takes no part in QoS added
WithOther(list) == [k \in Keys(list) \cup {"storage"} |-> IF k = "storage" THEN MaxQty ELSE list[k]]

AnyLists == QoSLists \cup {WithOther(l) : l \in QoSLists}

\* the lists that name both cpu and memory
FullLists == [{ResourceCPU, ResourceMemory} -> Quantities]

\* no container, one container with any lists, or two containers: the first
\* with any requests and any limits over cpu and memory, the second with lists
\* that name both cpu and memory
QOSModels ==
    {EmptyMap}
    \cup {"c1" :> r : r \in [Requests : AnyLists, Limits : AnyLists]}
    \cup {"c1" :> r1 @@ "c2" :> r2 : r1 \in [Requests : AnyLists, Limits : QoSLists],
                                     r2 \in [Requests : FullLists, Limits : FullLists]}

\* a run request whose resource annotation encodes the model's containers
RequestWith(containers) ==
    [Config |-> Ptr([Metadata |-> Ptr([Name |-> "n1", Namespace |-> "ns1"]),
                     Labels |-> EmptyMap,
                     Annotations |-> KeyResourceAnnotation :> JSONDoc(Object(containers), Absent({})),
                     Linux |-> Nil])]

InitQOS ==
    /\ \E containers \in QOSModels : p = fromRunRequestPod(ZeroPod, RequestWith(containers))
    /\ cacheContainers = AllContainers
    /\ ret = NoRet
    /\ last = [kind |-> "run", State |-> 0]
    /\ panicked = FALSE
    /\ mu = "none"
    /\ pc = Idle
    /\ loc = NoLoc

NextQOS == GetPodQOS

SpecQOS == InitQOS /\ [][NextQOS]_vars

-----------------------------------------------------------------------------
(* The reference classification *)

\* the containers of the model that give the resource a strictly positive quantity
PositiveContainers(model, kind, name) ==
    {c \in Keys(model.Containers) :
        /\ name \in Keys(model.Containers[c][kind])
        /\ model.Containers[c][kind][name] > 0}

RECURSIVE SumOver(_, _, _, _)
SumOver(model, kind, name, cs) ==
    IF cs = {} THEN 0
    ELSE LET c == CHOOSE x \in cs : TRUE
         IN model.Containers[c][kind][name] + SumOver(model, kind, name, cs \ {c})

PositiveSum(model, kind, name) == SumOver(model, kind, name, PositiveContainers(model, kind, name))

\* the resource kinds the summed positive quantities cover
Kinds(model, kind) ==
    {name \in {ResourceCPU, ResourceMemory} : PositiveContainers(model, kind, name) # {}}

ReferenceQOS(model) ==
    IF Kinds(model, "Requests") = {} /\ Kinds(model, "Limits") = {}
    THEN PodQOSBestEffort
    ELSE IF /\ \A c \in Keys(model.Containers) :
                   /\ c \in PositiveContainers(model, "Limits", ResourceCPU)
                   /\ c \in PositiveContainers(model, "Limits", ResourceMemory)
            /\ \A name \in Kinds(model, "Requests") :
                   PositiveSum(model, "Requests", name) = PositiveSum(model, "Limits", name)
            /\ Cardinality(Kinds(model, "Requests")) = Cardinality(Kinds(model, "Limits"))
         THEN PodQOSGuaranteed
         ELSE PodQOSBurstable

\* the model without the resources other than cpu and memory and without the
\* quantities equal to 0
StripList(list) ==
    [k \in {n \in Keys(list) : isSupportedQoSComputeResource(n) /\ list[n] # 0} |-> list[k]]

Strip(model) ==
    [Containers |-> [c \in Keys(model.Containers) |->
                        [Requests |-> StripList(model.Containers[c].Requests),
                         Limits |-> StripList(model.Containers[c].Limits)]],
     InitContainers |-> model.InitContainers]

\* a GetPodQOS call that computes and stores the class
Computes == p.QOSClass = "" /\ p'.QOSClass # ""

\* C1: a GetPodQOS call on a pod whose QOSClass is still empty stores and
\* returns the class of the reference algorithm for the pod's resource model
\* (BestEffort iff no positive cpu or memory quantity anywhere; else Guaranteed
\* iff every container has positive cpu and memory limits, the summed positive
\* requests equal the summed positive limits and both cover equally many
\* kinds; else Burstable), and the same class as for the model stripped of
\* the other resources and of the quantities equal to 0.
C1_ReferenceClass ==
    [][Computes =>
        /\ p'.QOSClass = ReferenceQOS(Deref(p.Resources))
        /\ ret'.qos = p'.QOSClass
        /\ p'.QOSClass = ReferenceQOS(Strip(Deref(p.Resources)))]_vars

\* C1 witness: a Guaranteed class stored for two containers, one of which also
\* declares a resource other than cpu and memory.
C1_Witness ==
    /\ ret.op = "GetPodQOS"
    /\ p.QOSClass = PodQOSGuaranteed
    /\ Keys(Deref(p.Resources).Containers) = {"c1", "c2"}
    /\ "storage" \in Keys(Deref(p.Resources).Containers["c1"].Requests)

\* the containers of a model and the resource names, each in one fixed order
FixedOrder(S) == CHOOSE order \in Orders(S) : TRUE

\* C10: whichever order a GetPodQOS call visits the containers and the resource
\* names in, the class it stores is the class computed from the same model in
\* one fixed order: all orders store the same class.
C10_OrderIndependent ==
    [][Computes =>
        p'.QOSClass = ComputeQOS(Deref(p.Resources),
                                 FixedOrder(Keys(Deref(p.Resources).Containers)),
                                 FixedOrder(ResourceNames))]_vars

\* C10 witness: a class stored for two containers of which exactly one lacks a
\* positive limit, so that isGuaranteed is cleared at the first or at the second
\* container depending on the order.
C10_Witness ==
    /\ ret.op = "GetPodQOS"
    /\ p.QOSClass = PodQOSBurstable
    /\ Keys(Deref(p.Resources).Containers) = {"c1", "c2"}
    /\ Kinds(Deref(p.Resources), "Limits") = {ResourceCPU, ResourceMemory}
    /\ "c1" \in PositiveContainers(Deref(p.Resources), "Limits", ResourceCPU)
    /\ "c1" \in PositiveContainers(Deref(p.Resources), "Limits", ResourceMemory)
    /\ "c2" \notin PositiveContainers(Deref(p.Resources), "Limits", ResourceMemory)

-----------------------------------------------------------------------------
(* Properties of the calls *)

IsConstruction(op) == op \in {"fromRunRequest", "fromListResponse"}

\* the containers the cache associates with the pod
OwnContainers(pod, containers) == {c \in containers : c.PodId = pod.Id}

\* C3: what a successful fromRunRequest leaves in the entity
RunPopulated(before, after, req) ==
    LET cfg == Deref(req.Config)
        meta == Deref(cfg.Metadata)
    IN /\ after.Name = meta.Name
       /\ after.Namespace = meta.Namespace
       /\ after.State = PodStateReady
       /\ after.Labels = cfg.Labels
       /\ after.Annotations = cfg.Annotations
       /\ after.CgroupParent = (IF cfg.Linux = Nil THEN "" ELSE Deref(cfg.Linux).CgroupParent)
       /\ after.Uid = (IF KubernetesPodUIDLabel \in Keys(cfg.Labels)
                       THEN cfg.Labels[KubernetesPodUIDLabel] ELSE "")
       /\ after.Resources # Nil
       /\ after.Id = before.Id
       /\ after.QOSClass = before.QOSClass

\* C3: what a successful fromListResponse leaves in the entity
ListPopulated(before, after, sandbox) ==
    LET meta == Deref(sandbox.Metadata)
    IN /\ after.Name = meta.Name
       /\ after.Namespace = meta.Namespace
       /\ after.State = sandbox.State
       /\ after.Labels = sandbox.Labels
       /\ after.Annotations = sandbox.Annotations
       /\ after.CgroupParent = before.CgroupParent
       /\ after.Uid = (IF KubernetesPodUIDLabel \in Keys(sandbox.Labels)
                       THEN sandbox.Labels[KubernetesPodUIDLabel] ELSE "")
       /\ after.Resources # Nil
       /\ after.Id = before.Id
       /\ after.QOSClass = before.QOSClass

\* C2: once a class is stored, no call changes it, and a GetPodQOS call returns
\* it and leaves the entity as it is, whatever the calls in between did to the
\* annotations and to Resources.
C2_MemoStable ==
    [][p.QOSClass # "" =>
        /\ p'.QOSClass = p.QOSClass
        /\ ret'.op = "GetPodQOS" => (ret'.qos = p.QOSClass /\ p' = p)]_vars

\* C2 witness: GetPodQOS has returned the stored class although the entity was
\* updated in place since and its present resource model is of another class.
C2_Witness ==
    /\ ret.op = "GetPodQOS"
    /\ p.QOSClass # ""
    /\ ret.qos = p.QOSClass
    /\ p.Resources # Nil
    /\ ReferenceQOS(Deref(p.Resources)) # p.QOSClass

\* C3: fromRunRequest returns an error exactly when the config or its metadata
\* is absent, fromListResponse exactly when the metadata is absent; a call that
\* returns an error leaves the entity as it was, and a call that returns none
\* has set every field it populates from the message.
C3_ConstructionAllOrNothing ==
    [][/\ ret'.op = "fromRunRequest" =>
            LET req == Deref(ret'.arg)
            IN /\ ret'.err <=> (req.Config = Nil \/ Deref(req.Config).Metadata = Nil)
               /\ ret'.err => p' = p
               /\ ~ret'.err => RunPopulated(p, p', req)
       /\ ret'.op = "fromListResponse" =>
            LET sandbox == Deref(ret'.arg)
            IN /\ ret'.err <=> (sandbox.Metadata = Nil)
               /\ ret'.err => p' = p
               /\ ~ret'.err => ListPopulated(p, p', sandbox)]_vars

\* C3 witness: a run request with a config but no metadata was refused on an
\* entity that an earlier call had populated with other labels and annotations.
C3_Witness ==
    /\ ret.op = "fromRunRequest"
    /\ ret.err
    /\ Deref(ret.arg).Config # Nil
    /\ p.Name = "n1"
    /\ p.Labels # Deref(Deref(ret.arg).Config).Labels
    /\ p.Annotations # Deref(Deref(ret.arg).Config).Annotations

\* C4: GetState returns Ready when the last successful construction was
\* fromRunRequest and the state the reply carried when it was fromListResponse.
C4_StateOfLastConstruction ==
    ret.op = "GetState" =>
        /\ last.kind = "run" => ret.state = PodStateReady
        /\ last.kind = "list" => ret.state = last.State

\* C4 witness: GetState after a list reply that carried a state other than Ready.
C4_Witness == ret.op = "GetState" /\ last.kind = "list" /\ ret.state # PodStateReady

\* C5: for a pod constructed from a message without the resource annotation,
\* GetContainers returns every container the cache associates with the pod and
\* GetInitContainers returns none.
C5_NoAnnotationAllContainers ==
    (last.kind # "none" /\ KeyResourceAnnotation \notin Keys(p.Annotations)) =>
        /\ ret.op = "GetContainers" => ret.containers = OwnContainers(p, cacheContainers)
        /\ ret.op = "GetInitContainers" => ret.containers = {}

\* C6: no call panics, also on an entity no construction has succeeded on.
C6_NoPanic == ~panicked

\* C7: after a successful construction Resources is the zero model when the
\* annotation is absent or its decoding fails, and the model decoded from the
\* annotation otherwise.
C7_ResourcesAllOrNothing ==
    (IsConstruction(ret.op) /\ ~ret.err) =>
        LET r == AnnotationObject(p, KeyResourceAnnotation, ZeroResources)
        IN p.Resources = Ptr(IF ~r.ok \/ r.err THEN ZeroResources ELSE r.obj)

\* C8 as claimed: no container is returned by both GetContainers and
\* GetInitContainers.
C8_Partition ==
    ret.op = "GetContainers" => ret.containers \cap InitContainersOf(p, cacheContainers) = {}

\* C8 amended: GetContainers returns the cached containers whose id is a key of
\* Resources.Containers (all of them when Resources is nil), init or not; a
\* cached container is returned by both calls exactly when its id is in
\* Resources.Containers and in Resources.InitContainers.
C8_IndependentMembership ==
    ret.op = "GetContainers" =>
        \A c \in cacheContainers :
            (c \in ret.containers /\ c \in InitContainersOf(p, cacheContainers))
            <=> /\ p.Resources # Nil
                /\ c.Id \in Keys(Deref(p.Resources).Containers)
                /\ c.Id \in Deref(p.Resources).InitContainers

\* C8 witness: GetContainers has returned a container that GetInitContainers
\* returns too.
C8_Witness ==
    /\ ret.op = "GetContainers"
    /\ ret.containers \cap InitContainersOf(p, cacheContainers) # {}

-----------------------------------------------------------------------------
(* A construction call and a GetPodQOS call running concurrently on one       *)
(* entity, statement by statement, under the cache's exclusivity             *)

ConcRunRequests ==
    {[Config |-> Nil]} \cup
    {[Config |-> Ptr([Metadata |-> Ptr([Name |-> "n1", Namespace |-> "ns1"]),
                      Labels |-> KubernetesPodUIDLabel :> "u1",
                      Annotations |-> a, Linux |-> Nil])] : a \in AnnotationMaps}

ConcListResponses ==
    {[Metadata |-> Nil, State |-> 1, Labels |-> EmptyMap, Annotations |-> EmptyMap]} \cup
    {[Metadata |-> Ptr([Name |-> "n1", Namespace |-> "ns1"]), State |-> 1,
      Labels |-> EmptyMap, Annotations |-> a] : a \in AnnotationMaps}

ConcMessages ==
    {[kind |-> "run", msg |-> m] : m \in ConcRunRequests}
    \cup {[kind |-> "list", msg |-> m] : m \in ConcListResponses}

\* every call enters without waiting
EnterUnlocked(holder) == TRUE

\* a call enters when no other call is inside
CanEnter(holder) == holder = "none"

\* the entity was inserted from a list reply before the calls start
InitConc ==
    /\ \E sandbox \in ConcListResponses :
          /\ ~ListResponseError(sandbox)
          /\ p = fromListResponsePod(ZeroPod, sandbox)
    /\ cacheContainers = AllContainers
    /\ ret = NoRet
    /\ last = [kind |-> "list", State |-> 1]
    /\ panicked = FALSE
    /\ mu = "none"
    /\ pc = Idle
    /\ loc = NoLoc

\* the caller takes the cache's exclusivity and calls fromRunRequest or fromListResponse
MutatorEnter(m) ==
    /\ pc.mutator = "idle"
    /\ CanEnter(mu)
    /\ mu' = "mutator"
    /\ pc' = [pc EXCEPT !.mutator = "check"]
    /\ loc' = [loc EXCEPT !.msg = Ptr(m)]
    /\ UNCHANGED <<p, cacheContainers, ret, last, panicked>>

MessageError(m) == IF m.kind = "run" THEN RunRequestError(m.msg) ELSE ListResponseError(m.msg)

\* the nil checks and the field assignments
MutatorAssign ==
    /\ pc.mutator = "check"
    /\ LET m == Deref(loc.msg)
       IN IF MessageError(m)
          THEN /\ ret' = [NoRet EXCEPT !.op = IF m.kind = "run" THEN "fromRunRequest" ELSE "fromListResponse",
                                       !.arg = Ptr(m.msg), !.err = TRUE]
               /\ pc' = [pc EXCEPT !.mutator = "return"]
               /\ UNCHANGED p
          ELSE /\ p' = IF m.kind = "run" THEN RunAssign(p, m.msg) ELSE ListAssign(p, m.msg)
               /\ pc' = [pc EXCEPT !.mutator = "allocate"]
               /\ UNCHANGED ret
    /\ UNCHANGED <<cacheContainers, last, panicked, mu, loc>>

\* p.Resources = &PodResourceRequirements{}: a reader that holds the old
\* pointer keeps the old struct
MutatorAllocate ==
    /\ pc.mutator = "allocate"
    /\ p' = AllocateResources(p)
    /\ loc' = IF loc.podResources # Nil /\ ~Deref(loc.podResources).stale
              THEN [loc EXCEPT !.podResources = Ptr([stale |-> TRUE, val |-> Deref(p.Resources)])]
              ELSE loc
    /\ pc' = [pc EXCEPT !.mutator = "decode"]
    /\ UNCHANGED <<cacheContainers, ret, last, panicked, mu>>

\* p.GetAnnotationObject(KeyResourceAnnotation, p.Resources, nil)
MutatorDecode ==
    /\ pc.mutator = "decode"
    /\ p' = DecodeResources(p)
    /\ pc' = [pc EXCEPT !.mutator = "labels"]
    /\ UNCHANGED <<cacheContainers, ret, last, panicked, mu, loc>>

\* p.extractLabels(); return nil
MutatorLabels ==
    /\ pc.mutator = "labels"
    /\ p' = extractLabels(p)
    /\ LET m == Deref(loc.msg)
       IN /\ ret' = [NoRet EXCEPT !.op = IF m.kind = "run" THEN "fromRunRequest" ELSE "fromListResponse",
                                  !.arg = Ptr(m.msg)]
          /\ last' = IF m.kind = "run" THEN [kind |-> "run", State |-> 0]
                     ELSE [kind |-> "list", State |-> m.msg.State]
    /\ pc' = [pc EXCEPT !.mutator = "return"]
    /\ UNCHANGED <<cacheContainers, panicked, mu, loc>>

\* the caller gives the exclusivity back
MutatorLeave ==
    /\ pc.mutator = "return"
    /\ mu' = IF mu = "mutator" THEN "none" ELSE mu
    /\ pc' = [pc EXCEPT !.mutator = "idle"]
    /\ loc' = [loc EXCEPT !.msg = Nil]
    /\ UNCHANGED <<p, cacheContainers, ret, last, panicked>>

\* the caller takes the cache's exclusivity and calls GetPodQOS
ReaderEnter ==
    /\ pc.reader = "idle"
    /\ CanEnter(mu)
    /\ mu' = "reader"
    /\ pc' = [pc EXCEPT !.reader = "memo"]
    /\ UNCHANGED <<p, cacheContainers, ret, last, panicked, loc>>

\* if p.QOSClass != "" { return p.QOSClass } ... podResources := p.Resources
ReaderMemo ==
    /\ pc.reader = "memo"
    /\ IF Memoized(p)
       THEN /\ ret' = [NoRet EXCEPT !.op = "GetPodQOS", !.qos = p.QOSClass]
            /\ pc' = [pc EXCEPT !.reader = "return"]
            /\ UNCHANGED loc
       ELSE /\ loc' = [loc EXCEPT !.podResources = Ptr([stale |-> FALSE, val |-> ZeroResources])]
            /\ pc' = [pc EXCEPT !.reader = "compute"]
            /\ UNCHANGED ret
    /\ UNCHANGED <<p, cacheContainers, last, panicked, mu>>

\* the loop over podResources.Containers and the decision, on what the struct
\* podResources points to holds now
ReaderCompute ==
    /\ pc.reader = "compute"
    /\ LET held == Deref(loc.podResources)
           podResources == IF held.stale THEN held.val ELSE Deref(p.Resources)
       IN \E corder \in Orders(Keys(podResources.Containers)), norder \in Orders(ResourceNames) :
             loc' = [loc EXCEPT !.qos = ComputeQOS(podResources, corder, norder)]
    /\ pc' = [pc EXCEPT !.reader = "store"]
    /\ UNCHANGED <<p, cacheContainers, ret, last, panicked, mu>>

\* p.QOSClass = ...; return p.QOSClass
ReaderStore ==
    /\ pc.reader = "store"
    /\ p' = [p EXCEPT !.QOSClass = loc.qos]
    /\ ret' = [NoRet EXCEPT !.op = "GetPodQOS", !.qos = loc.qos]
    /\ loc' = [loc EXCEPT !.podResources = Nil, !.qos = ""]
    /\ pc' = [pc EXCEPT !.reader = "return"]
    /\ UNCHANGED <<cacheContainers, last, panicked, mu>>

\* the caller gives the exclusivity back
ReaderLeave ==
    /\ pc.reader = "return"
    /\ mu' = IF mu = "reader" THEN "none" ELSE mu
    /\ pc' = [pc EXCEPT !.reader = "idle"]
    /\ UNCHANGED <<p, cacheContainers, ret, last, panicked, loc>>

NextConc ==
    \/ \E m \in ConcMessages : MutatorEnter(m)
    \/ MutatorAssign
    \/ MutatorAllocate
    \/ MutatorDecode
    \/ MutatorLabels
    \/ MutatorLeave
    \/ ReaderEnter
    \/ ReaderMemo
    \/ ReaderCompute
    \/ ReaderStore
    \/ ReaderLeave

SpecConc == InitConc /\ [][NextConc]_vars

\* C9: a GetPodQOS call and a construction call are never inside the entity
\* together, and the class a GetPodQOS call is about to store is the class of
\* the model fully decoded from the annotations the entity holds: not of the
\* empty model parseResourceAnnotations installs first, nor of one a
\* construction is still filling.
C9_QueriesSeeConstructedEntity ==
    /\ pc.reader # "idle" => pc.mutator = "idle"
    /\ pc.reader = "store" =>
          /\ p.Resources = parseResourceAnnotations(p).Resources
          /\ loc.qos = ReferenceQOS(Deref(parseResourceAnnotations(p).Resources))

\* C9 witness: GetPodQOS is about to store a class other than BestEffort after
\* a run request has updated the entity in place.
C9_Witness ==
    /\ pc.reader = "store"
    /\ ret.op = "fromRunRequest"
    /\ ~ret.err
    /\ loc.qos # PodQOSBestEffort

====
